---- MODULE Spec2Model ----
(***************************************************************************)
(* Model of the drmprime-drm overlay hwdec                                 *)
(* (video/out/opengl/hwdec_drmprime_drm.c): the three-slot frame ring,     *)
(* framebuffer and image-reference ownership, HDR metadata lifecycle,      *)
(* atomic / legacy plane updates and the display controller that latches   *)
(* the committed plane state at vsync; the placement of the video plane    *)
(* (scale_dst_rect and the alignment of the submitted rectangle); and the  *)
(* drmprime-egl texture interop (video/out/opengl/hwdec_drmprime_egl.c);   *)
(* and the drmprime-wayland overlay (hwdec_drmprime_wayland.c).            *)
(***************************************************************************)
EXTENDS Integers, Sequences, FiniteSets, TLC

\* ---------------------------------------------------------------- bounds
MaxFb == 4          \* framebuffers that can be created in one session
MaxHdr == 2         \* HDR metadata objects that can be created in one session
NumImages == 2      \* distinct decoded images handed to overlay_frame
MaxLayers == 2      \* layers of a frame descriptor given to map_frame
MaxEglImages == 5   \* EGL images that can be created in one session
MaxReinits == 2     \* reinit calls in one session
MaxDim == 4         \* largest width and height of the small displays, OSD
                    \* planes and rectangles

Images == 1 .. NumImages

\* ------------------------------------------------------ program constants
MP_TRADITIONAL_GAMMA_SDR == 0
MP_TRADITIONAL_GAMMA_HDR == 1
MP_SMPTE_ST2084 == 2
MP_HLG == 3
V4L2_COLORSPACE_DEFAULT == 0
V4L2_COLORSPACE_BT2020 == 10
MP_DRM_HDMI_OUTPUT_DEFAULT_RGB == 0
MP_DRM_HDMI_OUTPUT_YCBCR_HQ == 4
DRM_PRIME_CAP_IMPORT == 1

\* hwdec_drmprime_egl.c
MAX_NUM_PLANES == 4
EGL_NO_IMAGE_KHR == 0

\* id of the CRTC the video plane is attached to (p->ctx->crtc->id)
crtc_id == 7

\* the ring: current_frame, last_frame, old_frame
RingDepth == 3

\* ------------------------------------------------------------- data types
\* struct drm_prime_framebuffer, zero-initialised
ZeroFb == [fb_id |-> 0, gem_handle |-> 0]

\* struct drm_frame = {0}
drm_frame == [fb |-> ZeroFb, image |-> 0]

\* marker of a property that has not been added to the atomic request
Unset == -1

\* marker of "no plane state waiting to be latched"
NoPending == -1

Props == {"FB_ID", "CRTC_ID", "SRC_X", "SRC_Y", "SRC_W", "SRC_H",
          "CRTC_X", "CRTC_Y", "CRTC_W", "CRTC_H", "ZPOS", "EOTF",
          "COLOR_SPACE", "HDR_SOURCE_METADATA", "HDMI_OUTPUT_FORMAT"}

\* a freshly allocated atomic request (drmModeAtomicAlloc)
EmptyRequest == [n \in Props |-> Unset]

\* transfer characteristics of a decoded image (mpi->params.color.gamma) and
\* the classes mp_get_hdr_colorspace distinguishes in its argument
Trcs == {"pq", "hlg", "other"}

\* how the device answers the DRM_CAP_PRIME query: the return value of
\* drmGetCap and the capability mask it supports (0 when it cannot import prime handles)
DeviceCaps == [query_ret : {-1, 0}, has_prime : {0, DRM_PRIME_CAP_IMPORT}]

\* outcomes of drm_prime_create_framebuffer: success, failure before anything
\* was imported, failure after the handle was imported
CreateResults == {"ok", "fail_import", "fail_addfb"}

\* contents of the connector's HDR_PANEL_METADATA blob: none, or its eotf
NoBlob == -1
PanelProps == {NoBlob, 0, MP_SMPTE_ST2084}

\* struct mp_rect
mp_rect(x0, y0, x1, y1) == [x0 |-> x0, y0 |-> y0, x1 |-> x1, y1 |-> y1]

ZeroRect == mp_rect(0, 0, 0, 0)

\* the planes of the drmprime-egl interop, and an array of MAX_NUM_PLANES
\* zero handles
Planes == 0 .. MAX_NUM_PLANES - 1

NoImages == [i \in Planes |-> 0]

VARIABLES
    phase,              \* "new", "ready", "failed", "closed", "crashed"
    ctx,                \* p->ctx # NULL
    current_frame, last_frame, old_frame,   \* the ring (struct drm_frame)
    hdr_metadata,       \* p->hdr_metadata: <<>> (NULL) or <<[id, eotf]>>
    hdr_blob_id,        \* p->hdr_blob_id
    panel_metadata,     \* p->panel_metadata.eotf
    refs,               \* references the manager holds on each decoded image
    fbs,                \* framebuffers created and not destroyed
    gems,               \* imported GEM handles not closed
    destroyed,          \* framebuffers that have been destroyed
    next_fb,            \* id the next created framebuffer gets
    metas,              \* HDR metadata objects allocated and not freed
    blobs,              \* property blobs created and not destroyed
    dead_blobs,         \* property blobs that have been destroyed
    next_hdr,           \* id the next metadata object / blob gets
    atomic,             \* drm_params->atomic_request # NULL in this session
    request,            \* contents of the caller's atomic request
    pending,            \* committed plane FB_ID waiting for the next vsync
    scanout,            \* framebuffer the display controller is scanning out
    connector_hdr,      \* HDR_SOURCE_METADATA of the connector as last committed
    device_cap,         \* answer of the device to the DRM_CAP_PRIME query
    drm_params,         \* the "drm_params" native resource is registered
    call,               \* the most recent operation and its inputs
    ret,                \* its return value
    events,             \* what it did, in program order
    peak,               \* most imported handles alive at one point inside it
    stream_creates,     \* metadata objects created in the current stream
    display_w, display_h,   \* p->display_w, p->display_h
    src, dst,           \* p->src, p->dst
    mode,               \* physical mode of the CRTC: <<hdisplay, vdisplay>>
    scale_args,         \* arguments of the placement computation of the
                        \* most recent operation, <<>> if it made none
    egl_phase,          \* drmprime-egl: "new", "created", "failed", "ready",
                        \* "destroyed"
    images,             \* p->images[MAX_NUM_PLANES]
    gl_textures,        \* p->gl_textures[MAX_NUM_PLANES]
    egl_live,           \* EGL images created and not destroyed
    gl_live,            \* GL texture names generated and not deleted
    tex_target,         \* EGL image each texture slot was last attached to
    next_image,         \* handle the next created EGL image gets
    tex_gen,            \* number of glGenTextures calls so far
    last_map,           \* EGL images created by the most recent map_frame
    egl_call,           \* the most recent drmprime-egl operation
    egl_ret,            \* its return value
    egl_events,         \* what it did, in program order
    wl_phase,           \* drmprime-wayland: "new", "ready", "closed"
    wl_log,             \* p->log has been set
    wl_call,            \* the most recent drmprime-wayland operation and its
                        \* arguments
    wl_ret,             \* its return value
    wl_events           \* what it did, in program order

\* the state of the drmprime-drm overlay and of its environment
drm_vars == <<phase, ctx, current_frame, last_frame, old_frame, hdr_metadata,
              hdr_blob_id, panel_metadata, refs, fbs, gems, destroyed, next_fb,
              metas, blobs, dead_blobs, next_hdr, atomic, request, pending,
              scanout, device_cap, drm_params, call, ret, events, peak,
              stream_creates, display_w, display_h, src, dst, mode,
              scale_args, connector_hdr>>

\* the state of the drmprime-egl interop and of the EGL / GL context
egl_vars == <<egl_phase, images, gl_textures, egl_live, gl_live, tex_target,
              next_image, tex_gen, last_map, egl_call, egl_ret, egl_events>>

\* the state of the drmprime-wayland overlay
wl_vars == <<wl_phase, wl_log, wl_call, wl_ret, wl_events>>

vars == <<drm_vars, egl_vars, wl_vars>>

\* The program state as one record, threaded through the statements of a
\* handler; next_frame is overlay_frame's local variable.
State ==
    [ctx |-> ctx, current_frame |-> current_frame, last_frame |-> last_frame,
     old_frame |-> old_frame, next_frame |-> drm_frame,
     hdr_metadata |-> hdr_metadata, hdr_blob_id |-> hdr_blob_id,
     panel_metadata |-> panel_metadata, refs |-> refs, fbs |-> fbs,
     gems |-> gems, destroyed |-> destroyed, next_fb |-> next_fb,
     metas |-> metas, blobs |-> blobs, dead_blobs |-> dead_blobs,
     next_hdr |-> next_hdr, atomic |-> atomic, request |-> request,
     drm_params |-> drm_params, device_cap |-> device_cap,
     pending |-> pending, events |-> <<>>, peak |-> Cardinality(gems),
     stream_creates |-> stream_creates, crashed |-> FALSE, ret |-> 0,
     display_w |-> display_w, display_h |-> display_h, src |-> src,
     dst |-> dst, mode |-> mode, scale_args |-> <<>>]

\* the state a handler leaves behind
Becomes(s) ==
    /\ ctx' = s.ctx
    /\ current_frame' = s.current_frame
    /\ last_frame' = s.last_frame
    /\ old_frame' = s.old_frame
    /\ hdr_metadata' = s.hdr_metadata
    /\ hdr_blob_id' = s.hdr_blob_id
    /\ panel_metadata' = s.panel_metadata
    /\ refs' = s.refs
    /\ fbs' = s.fbs
    /\ gems' = s.gems
    /\ destroyed' = s.destroyed
    /\ next_fb' = s.next_fb
    /\ metas' = s.metas
    /\ blobs' = s.blobs
    /\ dead_blobs' = s.dead_blobs
    /\ next_hdr' = s.next_hdr
    /\ request' = s.request
    /\ pending' = s.pending
    /\ events' = s.events
    /\ peak' = s.peak
    /\ stream_creates' = s.stream_creates
    /\ ret' = s.ret
    /\ display_w' = s.display_w
    /\ display_h' = s.display_h
    /\ src' = s.src
    /\ dst' = s.dst
    /\ scale_args' = s.scale_args

Log(s, e) == [s EXCEPT !.events = Append(@, e)]

Max(a, b) == IF a >= b THEN a ELSE b

\* ------------------------------------------------------- external helpers
\* drm_prime_destroy_framebuffer(log, fd, &s[slot].fb): removes the
\* framebuffer, closes its handle and zeroes the structure
drm_prime_destroy_framebuffer(s, slot) ==
    [Log(s, <<"destroy_framebuffer", slot, s[slot].fb.fb_id>>) EXCEPT
        !.fbs = @ \ {s[slot].fb.fb_id},
        !.gems = @ \ {s[slot].fb.gem_handle},
        !.destroyed = IF s[slot].fb.fb_id # 0 THEN @ \cup {s[slot].fb.fb_id}
                      ELSE @,
        ![slot].fb = ZeroFb]

\* drm_prime_create_framebuffer, first half: the PRIME descriptors of the
\* frame are imported as a GEM handle
drmPrimeFDToHandle(s) ==
    [s EXCEPT !.gems = @ \cup {s.next_fb},
              !.next_frame.fb.gem_handle = s.next_fb,
              !.peak = Max(@, Cardinality(s.gems \cup {s.next_fb}))]

\* drm_prime_create_framebuffer, second half: a framebuffer is added on the
\* imported handle
drmModeAddFB2(s) ==
    [s EXCEPT !.fbs = @ \cup {s.next_fb},
              !.next_frame.fb.fb_id = s.next_fb,
              !.next_fb = s.next_fb + 1]

\* drm_prime_create_framebuffer(log, fd, desc, w, h, &next_frame.fb)
drm_prime_create_framebuffer(s, result) ==
    CASE result = "fail_import" -> Log(s, <<"create_framebuffer", 0>>)
      [] result = "fail_addfb" ->
            Log(drmPrimeFDToHandle(s), <<"create_framebuffer", 0>>)
      [] result = "ok" ->
            Log(drmModeAddFB2(drmPrimeFDToHandle(s)),
                <<"create_framebuffer", s.next_fb>>)

\* mp_image_unrefp(&s[slot].image): drop the reference the slot holds
mp_image_unrefp(s, slot) ==
    IF s[slot].image = 0 THEN s
    ELSE Log([s EXCEPT !.refs[s[slot].image] = @ - 1, ![slot].image = 0],
             <<"unref", slot, s[slot].image>>)

\* mp_image_new_ref(new_value), stored in the slot
mp_image_new_ref(s, slot, new_value) ==
    IF new_value = 0 THEN s
    ELSE Log([s EXCEPT !.refs[new_value] = @ + 1, ![slot].image = new_value],
             <<"ref", slot, new_value>>)

\* mp_image_setrefp(&s[slot].image, new_value): drop the reference the slot
\* holds, take a new reference on new_value.  The two pointers are equal only
\* when both are NULL: every slot owns its own mp_image.
mp_image_setrefp(s, slot, new_value) ==
    mp_image_new_ref(mp_image_unrefp(s, slot), slot, new_value)

\* drm_object_set_property(request, object, name, value): adds the property
\* to the request; fails without effect when there is no request
drm_object_set_property(s, object, name, value) ==
    IF ~s.atomic THEN s
    ELSE Log([s EXCEPT !.request[name] = value],
             <<"set_property", object, name, value>>)

\* MP_ALIGN_UP(x, 2): (x + 1) & ~1
MP_ALIGN_UP(x) == (x + 1) - ((x + 1) % 2)

\* MP_ALIGN_DOWN(x, 2): x & ~1
MP_ALIGN_DOWN(x) == x - (x % 2)

\* x << 16 of a non-negative int
Shl16(x) == x * 65536

\* conversion of the double n / d (d > 0) to int: truncation toward zero
DoubleToInt(n, d) == IF n >= 0 THEN n \div d ELSE -((-n) \div d)

\* -------------------------------------------------- hwdec_drmprime_drm.c
\* the evicted framebuffer never released
release_old_frame_never(s) == s

\* set_current_frame, lines 167-169: the framebuffer of the slot that
\* leaves the ring is destroyed
release_old_frame(s) ==
    IF s.ctx THEN drm_prime_destroy_framebuffer(s, "old_frame") ELSE s

\* a slot shifted by structure copy, the image pointer copied without
\* mp_image_setrefp
shift_frame_plain_copy(s, to, from) ==
    Log([s EXCEPT ![to] = s[from]], <<"shift", to, s[from].fb.fb_id>>)

\* set_current_frame, lines 171-175: slot "to" takes over the image
\* reference and the framebuffer of slot "from"
shift_frame(s, to, from) ==
    Log([mp_image_setrefp(s, to, s[from].image) EXCEPT ![to].fb = s[from].fb],
        <<"shift", to, s[from].fb.fb_id>>)

\* set_current_frame, lines 177-183: current_frame takes the new frame, or
\* is zeroed when frame is NULL
install_frame(s, frame) ==
    IF frame # <<>>
    THEN Log(mp_image_setrefp([s EXCEPT !.current_frame.fb = frame[1].fb],
                              "current_frame", frame[1].image),
             <<"install", frame[1].fb.fb_id, frame[1].image>>)
    ELSE Log(mp_image_setrefp([s EXCEPT !.current_frame.fb = ZeroFb],
                              "current_frame", 0),
             <<"install", 0, 0>>)

\* set_current_frame installing the new frame before the ring is shifted
\* and the evicted slot released
set_current_frame_install_first(s, frame) ==
    Log([mp_image_setrefp(
             shift_frame(release_old_frame(install_frame(s, frame)),
                         "old_frame", "last_frame"),
             "last_frame", s.current_frame.image)
         EXCEPT !.last_frame.fb = s.current_frame.fb],
        <<"shift", "last_frame", s.current_frame.fb.fb_id>>)

\* set_current_frame(hw, frame); frame is <<>> for NULL, <<f>> for &f
set_current_frame(s, frame) ==
    install_frame(
        shift_frame(
            shift_frame(release_old_frame(s), "old_frame", "last_frame"),
            "last_frame", "current_frame"),
        frame)

\* the larger of the two ratios: the video fills the display
fill_ratio(p, source_w, source_h) ==
    IF p.display_w * source_h <= p.display_h * source_w
    THEN <<p.display_h, source_h>>
    ELSE <<p.display_w, source_w>>

\* scale_dst_rect, lines 192-194: the smaller of display_w / source_w and
\* display_h / source_h, as the fraction <<numerator, denominator>>
fit_ratio(p, source_w, source_h) ==
    IF p.display_w * source_h <= p.display_h * source_w
    THEN <<p.display_w, source_w>>
    ELSE <<p.display_h, source_h>>

\* the placement computed without the centering offsets
scale_rect_uncentered(r, ratio, display, source_w, source_h) ==
    mp_rect(DoubleToInt(r.x0 * ratio[1], ratio[2]),
            DoubleToInt(r.y0 * ratio[1], ratio[2]),
            DoubleToInt(r.x1 * ratio[1], ratio[2]),
            DoubleToInt(r.y1 * ratio[1], ratio[2]))

\* scale_dst_rect, lines 196-207: the rectangle scaled by ratio and moved by
\* offset_x = (display_w - ratio * source_w) / 2 and offset_y likewise
scale_rect(r, ratio, display, source_w, source_h) ==
    mp_rect(DoubleToInt(r.x0 * ratio[1], ratio[2])
              + DoubleToInt(display[1] * ratio[2] - ratio[1] * source_w,
                            2 * ratio[2]),
            DoubleToInt(r.y0 * ratio[1], ratio[2])
              + DoubleToInt(display[2] * ratio[2] - ratio[1] * source_h,
                            2 * ratio[2]),
            DoubleToInt(r.x1 * ratio[1], ratio[2])
              + DoubleToInt(display[1] * ratio[2] - ratio[1] * source_w,
                            2 * ratio[2]),
            DoubleToInt(r.y1 * ratio[1], ratio[2])
              + DoubleToInt(display[2] * ratio[2] - ratio[1] * source_h,
                            2 * ratio[2]))

\* scale_dst_rect(hw, source_w, source_h, src, dst): the value stored in
\* *dst; p is hw->priv
scale_dst_rect(p, source_w, source_h, r) ==
    scale_rect(r, fit_ratio(p, source_w, source_h),
               <<p.display_w, p.display_h>>, source_w, source_h)

\* drmModeAtomicCommit of disable_video_plane's request; commit_ok is
\* whether the kernel accepted it
commit_disable(s, commit_ok) ==
    IF commit_ok THEN [s EXCEPT !.pending = 0] ELSE s

\* disable_video_plane(hw) with p->ctx present: a request of its own with
\* FB_ID = 0 and CRTC_ID = 0, committed non-blocking
disable_video_plane(s, commit_ok) ==
    commit_disable(Log(s, <<"commit_disable", commit_ok>>), commit_ok)

\* the eotf get_hdr_metadata derives from mpi->params.color.gamma
get_hdr_metadata(gamma) ==
    CASE gamma = "pq" -> MP_SMPTE_ST2084
      [] gamma = "hlg" -> MP_HLG
      [] OTHER -> MP_TRADITIONAL_GAMMA_SDR

mp_get_hdr_colorspace(trc) ==
    IF trc \in {"pq", "hlg"} THEN V4L2_COLORSPACE_BT2020
    ELSE V4L2_COLORSPACE_DEFAULT

\* while (p->old_frame.fb.fb_id) set_current_frame(hw, NULL);
RECURSIVE drain_ring(_)
drain_ring(s) ==
    IF s.old_frame.fb.fb_id # 0 THEN drain_ring(set_current_frame(s, <<>>))
    ELSE s

\* the "fail:" label falling through to the ring advance
overlay_fail_advances(s, r) ==
    [set_current_frame(drm_prime_destroy_framebuffer(s, "next_frame"),
                       <<s.next_frame>>) EXCEPT !.ret = r]

\* overlay_frame, the "fail:" label
overlay_fail(s, r) ==
    [drm_prime_destroy_framebuffer(s, "next_frame") EXCEPT !.ret = r]

\* drmModeCreatePropertyBlob(fd, p->hdr_metadata, ..., &p->hdr_blob_id)
drmModeCreatePropertyBlob(s, blob_ok) ==
    IF blob_ok
    THEN [s EXCEPT !.hdr_blob_id = s.hdr_metadata[1].id,
                   !.blobs = @ \cup {s.hdr_metadata[1].id}]
    ELSE s

\* overlay_frame, lines 337-341: lazy creation of the stream's HDR metadata
\* and of its property blob
create_hdr_metadata(s, in) ==
    IF s.hdr_metadata # <<>> THEN s
    ELSE Log(drmModeCreatePropertyBlob(
                 [s EXCEPT
                    !.hdr_metadata = <<[id |-> s.next_hdr,
                                        eotf |-> get_hdr_metadata(in.gamma)]>>,
                    !.metas = @ \cup {s.next_hdr},
                    !.next_hdr = s.next_hdr + 1,
                    !.stream_creates = @ + 1],
                 in.blob_ok),
             <<"create_hdr_metadata", s.next_hdr, in.blob_ok>>)

\* the HDR signalling written without looking at the panel
write_hdr_eotf_any_panel(s) ==
    drm_object_set_property(
        drm_object_set_property(s, "connector", "HDR_SOURCE_METADATA",
                                s.hdr_blob_id),
        "video_plane", "EOTF", s.hdr_metadata[1].eotf)

\* overlay_frame, lines 345-353: "send hdr to panel only if it supports hdr"
write_hdr_eotf(s) ==
    IF s.panel_metadata # 0
    THEN drm_object_set_property(
             drm_object_set_property(s, "connector", "HDR_SOURCE_METADATA",
                                     s.hdr_blob_id),
             "video_plane", "EOTF", s.hdr_metadata[1].eotf)
    ELSE drm_object_set_property(s, "video_plane", "EOTF",
             IF s.hdr_metadata[1].eotf # 0 THEN MP_TRADITIONAL_GAMMA_HDR
             ELSE MP_TRADITIONAL_GAMMA_SDR)

\* overlay_frame, lines 343-363: HDR signalling written to the request
write_hdr_properties(s, in) ==
    IF s.hdr_metadata # <<>>
    THEN drm_object_set_property(
             drm_object_set_property(write_hdr_eotf(s), "video_plane",
                 "COLOR_SPACE", mp_get_hdr_colorspace(in.space)),
             "connector", "HDMI_OUTPUT_FORMAT", MP_DRM_HDMI_OUTPUT_YCBCR_HQ)
    ELSE drm_object_set_property(
             drm_object_set_property(s, "video_plane", "EOTF",
                                     MP_TRADITIONAL_GAMMA_SDR),
             "video_plane", "COLOR_SPACE", V4L2_COLORSPACE_DEFAULT)

\* overlay_frame, lines 327-330: the source rectangle in 16.16 fixed point
write_plane_source(s) ==
    drm_object_set_property(
        drm_object_set_property(
            drm_object_set_property(
                drm_object_set_property(s, "video_plane", "SRC_X",
                                        Shl16(s.src.x0)),
                "video_plane", "SRC_Y", Shl16(s.src.y0)),
            "video_plane", "SRC_W", Shl16(s.src.x1 - s.src.x0)),
        "video_plane", "SRC_H", Shl16(s.src.y1 - s.src.y0))

\* the destination rectangle submitted as computed, without alignment
write_plane_destination_unaligned(s) ==
    drm_object_set_property(
        drm_object_set_property(
            drm_object_set_property(
                drm_object_set_property(s, "video_plane", "CRTC_X", s.dst.x0),
                "video_plane", "CRTC_Y", s.dst.y0),
            "video_plane", "CRTC_W", s.dst.x1 - s.dst.x0),
        "video_plane", "CRTC_H", s.dst.y1 - s.dst.y0)

\* overlay_frame, lines 331-334 with dstw and dsth of lines 316-317: the
\* destination rectangle
write_plane_destination(s) ==
    drm_object_set_property(
        drm_object_set_property(
            drm_object_set_property(
                drm_object_set_property(s, "video_plane", "CRTC_X",
                                        MP_ALIGN_DOWN(s.dst.x0)),
                "video_plane", "CRTC_Y", MP_ALIGN_DOWN(s.dst.y0)),
            "video_plane", "CRTC_W", MP_ALIGN_UP(s.dst.x1 - s.dst.x0)),
        "video_plane", "CRTC_H", MP_ALIGN_UP(s.dst.y1 - s.dst.y0))

\* overlay_frame, lines 324-335: the plane properties of the new frame
write_plane_properties(s) ==
    drm_object_set_property(
        write_plane_destination(
            write_plane_source(
                drm_object_set_property(
                    drm_object_set_property(s, "video_plane", "FB_ID",
                                            s.next_frame.fb.fb_id),
                    "video_plane", "CRTC_ID", crtc_id))),
        "video_plane", "ZPOS", 0)

\* overlay_frame, lines 324-363: the atomic path
overlay_atomic(s, in) ==
    write_hdr_properties(create_hdr_metadata(write_plane_properties(s), in),
                         in)

\* the call drmModeSetPlane(fd, plane, crtc, fb_id, 0, crtc_x, crtc_y,
\* crtc_w, crtc_h, src_x, src_y, src_w, src_h) of lines 366-368 and whether
\* it succeeded
drmModeSetPlane(s, setplane_ok) ==
    <<"drmModeSetPlane", s.next_frame.fb.fb_id, setplane_ok,
      MP_ALIGN_DOWN(s.dst.x0), MP_ALIGN_DOWN(s.dst.y0),
      MP_ALIGN_UP(s.dst.x1 - s.dst.x0), MP_ALIGN_UP(s.dst.y1 - s.dst.y0),
      Shl16(s.src.x0), Shl16(s.src.y0),
      Shl16(s.src.x1 - s.src.x0), Shl16(s.src.y1 - s.src.y0)>>

\* the failure of drmModeSetPlane ignored
overlay_legacy_ignores_failure(s, setplane_ok) ==
    set_current_frame(
        Log(IF setplane_ok THEN [s EXCEPT !.pending = s.next_frame.fb.fb_id]
            ELSE s,
            drmModeSetPlane(s, setplane_ok)),
        <<s.next_frame>>)

\* overlay_frame, lines 365-374: the legacy path; setplane_ok is whether
\* drmModeSetPlane returned 0 rather than a negative value
overlay_legacy(s, setplane_ok) ==
    IF ~setplane_ok
    THEN overlay_fail(Log(s, drmModeSetPlane(s, setplane_ok)), -1)
    ELSE set_current_frame(
             Log([s EXCEPT !.pending = s.next_frame.fb.fb_id],
                 drmModeSetPlane(s, setplane_ok)),
             <<s.next_frame>>)

\* overlay_frame, lines 382-385: the signalling reset at the end of the
\* stream
reset_hdr_properties(s) ==
    drm_object_set_property(
        drm_object_set_property(
            drm_object_set_property(
                drm_object_set_property(s, "video_plane", "EOTF",
                                        MP_TRADITIONAL_GAMMA_SDR),
                "video_plane", "COLOR_SPACE", V4L2_COLORSPACE_DEFAULT),
            "connector", "HDMI_OUTPUT_FORMAT", MP_DRM_HDMI_OUTPUT_DEFAULT_RGB),
        "connector", "HDR_SOURCE_METADATA", 0)

\* the end of the stream freeing the metadata object but leaving the blob
\* and its id in place
free_hdr_metadata_keeps_blob(s) ==
    IF s.hdr_metadata # <<>>
    THEN Log([s EXCEPT !.metas = @ \ {s.hdr_metadata[1].id},
                       !.hdr_metadata = <<>>,
                       !.stream_creates = 0],
             <<"free_hdr_metadata", s.hdr_metadata[1].id, 0>>)
    ELSE [s EXCEPT !.stream_creates = 0]

\* overlay_frame, lines 387-394: "End of playback, free playback specific
\* data"
free_hdr_metadata(s) ==
    IF s.hdr_metadata # <<>>
    THEN Log([s EXCEPT !.metas = @ \ {s.hdr_metadata[1].id},
                       !.hdr_metadata = <<>>,
                       !.blobs = @ \ {s.hdr_blob_id},
                       !.dead_blobs = IF s.hdr_blob_id # 0
                                      THEN @ \cup {s.hdr_blob_id} ELSE @,
                       !.hdr_blob_id = 0,
                       !.stream_creates = 0],
             <<"free_hdr_metadata", s.hdr_metadata[1].id, s.hdr_blob_id>>)
    ELSE [s EXCEPT !.stream_creates = 0]

\* overlay_frame, lines 376-395: hw_image == NULL, end of the stream
overlay_none(s, in) ==
    free_hdr_metadata(
        reset_hdr_properties(
            drain_ring(disable_video_plane(s, in.commit_ok))))

\* the new frame installed twice on the atomic path
overlay_created_installs_twice(s, in) ==
    IF in.create # "ok" THEN overlay_fail(s, -1)
    ELSE IF s.atomic
    THEN set_current_frame(
             set_current_frame(overlay_atomic(s, in), <<s.next_frame>>),
             <<s.next_frame>>)
    ELSE overlay_legacy(s, in.setplane_ok)

\* overlay_frame, lines 316-375: the frame has a descriptor and its
\* framebuffer was asked for with the outcome in.create
overlay_created(s, in) ==
    IF in.create # "ok" THEN overlay_fail(s, -1)
    ELSE IF s.atomic
    THEN set_current_frame(overlay_atomic(s, in), <<s.next_frame>>)
    ELSE overlay_legacy(s, in.setplane_ok)

\* overlay_frame, line 397: the ring advances with the local next_frame
advance_ring(s) == set_current_frame(s, <<s.next_frame>>)

\* overlay_frame, lines 300-310: the placement of the plane; in.osd_size is
\* the "drm_osd_size" native resource, <<>> when it is not registered
place_plane(s, in) ==
    IF in.osd_size # <<>>
    THEN [s EXCEPT
            !.dst = scale_dst_rect(s, in.osd_size[1].width,
                                   in.osd_size[1].height, in.dst),
            !.scale_args = <<[source_w |-> in.osd_size[1].width,
                              source_h |-> in.osd_size[1].height,
                              src |-> in.dst]>>,
            !.src = in.src,
            !.next_frame.image = in.hw_image]
    ELSE [s EXCEPT !.dst = in.dst, !.src = in.src,
                   !.next_frame.image = in.hw_image]

\* overlay_frame(hw, hw_image, src, dst, newframe); in.hw_image is 0 for NULL
overlay_frame(s, in) ==
    IF s.ctx /\ ~s.drm_params THEN [s EXCEPT !.ret = -1]
    ELSE IF in.hw_image # 0
    THEN IF in.has_desc
         THEN overlay_created(
                  drm_prime_create_framebuffer(place_plane(s, in), in.create),
                  in)
         ELSE advance_ring(place_plane(s, in))
    ELSE advance_ring(overlay_none(s, in))

\* uninit destroying the framebuffers of last_frame and current_frame where
\* they are
uninit_releases_ring(s, in) ==
    IF ~s.ctx
    THEN IF in.ub = "crash"
         THEN Log([s EXCEPT !.crashed = TRUE], <<"null_deref", "ctx">>)
         ELSE set_current_frame(Log(s, <<"null_deref", "ctx">>), <<>>)
    ELSE Log([set_current_frame(
                  drm_prime_destroy_framebuffer(
                      drm_prime_destroy_framebuffer(
                          disable_video_plane(s, in.commit_ok), "last_frame"),
                      "current_frame"),
                  <<>>)
                  EXCEPT !.ctx = FALSE],
             <<"destroy_context">>)

\* uninit(hw).  Without a context disable_video_plane dereferences the NULL
\* p->ctx: the build either faults there (in.ub = "crash") or carries on
\* with nothing committed (in.ub = "survive").
uninit(s, in) ==
    IF ~s.ctx
    THEN IF in.ub = "crash"
         THEN Log([s EXCEPT !.crashed = TRUE], <<"null_deref", "ctx">>)
         ELSE set_current_frame(Log(s, <<"null_deref", "ctx">>), <<>>)
    ELSE Log([set_current_frame(disable_video_plane(s, in.commit_ok), <<>>)
                  EXCEPT !.ctx = FALSE],
             <<"destroy_context">>)

\* init, lines 455-476: with the context created, the PRIME capability is
\* queried, the plane disabled and the panel's HDR metadata read
init_context(s, in) ==
    IF s.device_cap.query_ret < 0
    THEN [uninit(s, in) EXCEPT !.ret = -1]
    ELSE IF in.panel # NoBlob
    THEN [disable_video_plane(s, in.commit_ok)
              EXCEPT !.panel_metadata = in.panel]
    ELSE disable_video_plane(s, in.commit_ok)

\* init, lines 446-452: the size of the display is read from the mode of the
\* CRTC when drmModeGetCrtc returns one
read_crtc_mode(s, crtc_ok) ==
    IF crtc_ok THEN [s EXCEPT !.display_w = s.mode[1], !.display_h = s.mode[2]]
    ELSE s

\* init(hw)
init(s, in) ==
    IF ~s.drm_params \/ ~in.ctx_ok
    THEN [uninit(s, in) EXCEPT !.ret = -1]
    ELSE init_context(
             read_crtc_mode(
                 Log([s EXCEPT !.ctx = TRUE], <<"create_context">>),
                 in.crtc_ok),
             in)

\* ---------------------------------------------------------------- inputs
InitInputs ==
    [ctx_ok : BOOLEAN, panel : PanelProps, commit_ok : BOOLEAN,
     ub : {"crash", "survive"}, crtc_ok : BOOLEAN]

OverlayInputs ==
    [hw_image : 0 .. NumImages, has_desc : BOOLEAN, create : CreateResults,
     gamma : Trcs, space : Trcs, blob_ok : BOOLEAN, setplane_ok : BOOLEAN,
     commit_ok : BOOLEAN]

\* an input the call does not read has its default value
Relevant(in) ==
    LET built == in.hw_image # 0 /\ in.has_desc /\ in.create = "ok"
        fresh == built /\ atomic /\ hdr_metadata = <<>>
    IN  /\ in.hw_image = 0 => ~in.has_desc
        /\ ~in.has_desc => in.create = "ok"
        /\ ~fresh => in.gamma = "other" /\ in.blob_ok
        /\ ~(built /\ atomic) => in.space = "other"
        /\ ~(built /\ ~atomic) => in.setplane_ok
        /\ in.hw_image # 0 => in.commit_ok

\* the bounds of the model: ids stay within 1 .. MaxFb and 1 .. MaxHdr
WithinBounds(in) ==
    /\ in.has_desc => next_fb <= MaxFb
    /\ (in.has_desc /\ in.create = "ok" /\ atomic /\ hdr_metadata = <<>>)
           => next_hdr <= MaxHdr

\* the physical mode of the display and the rectangles of a call that does
\* not vary them
DefaultMode == <<4, 4>>

DefaultGeometry ==
    [src |-> mp_rect(0, 0, 4, 4), dst |-> mp_rect(0, 0, 4, 4),
     osd_size |-> <<>>]

\* the arguments of one overlay_frame call
WithGeometry(in, g) ==
    [hw_image |-> in.hw_image, has_desc |-> in.has_desc,
     create |-> in.create, gamma |-> in.gamma, space |-> in.space,
     blob_ok |-> in.blob_ok, setplane_ok |-> in.setplane_ok,
     commit_ok |-> in.commit_ok, src |-> g.src, dst |-> g.dst,
     osd_size |-> g.osd_size]

CallRecord(name, in) ==
    [name |-> name, has_desc |-> in.has_desc, create |-> in.create]

NoInput ==
    [hw_image |-> 0, has_desc |-> FALSE, create |-> "ok", gamma |-> "other",
     space |-> "other", blob_ok |-> TRUE, setplane_ok |-> TRUE,
     commit_ok |-> TRUE]

\* ------------------------------------------------------------ the machine
\* the state after construction: priv is zeroed; the environment (the
\* renderer's native resources and the device) is any of the possible ones,
\* the physical mode of the display left open
InitPriv ==
    /\ phase = "new"
    /\ ctx = FALSE
    /\ current_frame = drm_frame
    /\ last_frame = drm_frame
    /\ old_frame = drm_frame
    /\ hdr_metadata = <<>>
    /\ hdr_blob_id = 0
    /\ panel_metadata = 0
    /\ refs = [i \in Images |-> 0]
    /\ fbs = {}
    /\ gems = {}
    /\ destroyed = {}
    /\ next_fb = 1
    /\ metas = {}
    /\ blobs = {}
    /\ dead_blobs = {}
    /\ next_hdr = 1
    /\ atomic \in BOOLEAN
    /\ request = EmptyRequest
    /\ pending = NoPending
    /\ scanout = 0
    /\ connector_hdr = 0
    /\ device_cap \in DeviceCaps
    /\ drm_params \in BOOLEAN
    /\ call = CallRecord("none", NoInput)
    /\ ret = 0
    /\ events = <<>>
    /\ peak = 0
    /\ stream_creates = 0
    /\ display_w = 0
    /\ display_h = 0
    /\ src = ZeroRect
    /\ dst = ZeroRect
    /\ scale_args = <<>>
    /\ egl_phase = "new"
    /\ images = NoImages
    /\ gl_textures = NoImages
    /\ egl_live = {}
    /\ gl_live = {}
    /\ tex_target = NoImages
    /\ next_image = 1
    /\ tex_gen = 0
    /\ last_map = {}
    /\ egl_call = "none"
    /\ egl_ret = 0
    /\ egl_events = <<>>
    /\ wl_phase = "new"
    /\ wl_log = FALSE
    /\ wl_call = [name |-> "none"]
    /\ wl_ret = 0
    /\ wl_events = <<>>

\* the state after construction, on the display of the default mode
Init ==
    /\ InitPriv
    /\ mode = DefaultMode

\* what the player makes of init's result
PhaseAfter(s) ==
    IF s.crashed THEN "crashed" ELSE IF s.ret = 0 THEN "ready" ELSE "failed"

\* the player loads the hwdec: init
InitWith(Inputs) ==
    /\ phase = "new"
    /\ \E in \in Inputs :
         /\ Becomes(init(State, in))
         /\ phase' = PhaseAfter(init(State, in))
    /\ call' = CallRecord("init", NoInput)
    /\ UNCHANGED <<atomic, scanout, device_cap, drm_params, mode,
                   connector_hdr>>
    /\ UNCHANGED <<egl_vars, wl_vars>>

\* the renderer presents a decoded image: overlay_frame(hw, hw_image, src,
\* dst, newframe), with the rectangles and the OSD size of Geometries
OverlayFrameAt(Inputs, Geometries) ==
    /\ phase = "ready"
    /\ \E in \in Inputs, g \in Geometries :
         /\ in.hw_image # 0
         /\ Relevant(in)
         /\ WithinBounds(in)
         /\ Becomes(overlay_frame(State, WithGeometry(in, g)))
         /\ call' = CallRecord("overlay_frame", in)
    /\ UNCHANGED <<phase, atomic, scanout, device_cap, drm_params, mode,
                   connector_hdr>>
    /\ UNCHANGED <<egl_vars, wl_vars>>

OverlayFrameWith(Inputs) == OverlayFrameAt(Inputs, {DefaultGeometry})

\* the renderer ends the stream: overlay_frame(hw, NULL, ...)
OverlayNoneWith(Inputs) ==
    /\ phase = "ready"
    /\ \E in \in Inputs :
         /\ in.hw_image = 0
         /\ Relevant(in)
         /\ Becomes(overlay_frame(State, WithGeometry(in, DefaultGeometry)))
         /\ call' = CallRecord("overlay_none", in)
    /\ UNCHANGED <<phase, atomic, scanout, device_cap, drm_params, mode,
                   connector_hdr>>
    /\ UNCHANGED <<egl_vars, wl_vars>>

\* the player unloads the hwdec: uninit
UninitWith(Inputs) ==
    /\ phase = "ready"
    /\ \E in \in Inputs :
         /\ in.ctx_ok /\ in.panel = NoBlob /\ in.ub = "crash" /\ in.crtc_ok
         /\ Becomes(uninit(State, in))
    /\ phase' = "closed"
    /\ call' = CallRecord("uninit", NoInput)
    /\ UNCHANGED <<atomic, scanout, device_cap, drm_params, mode,
                   connector_hdr>>
    /\ UNCHANGED <<egl_vars, wl_vars>>

\* the renderer commits the atomic request it handed to overlay_frame and
\* allocates a new one; the kernel rejects a request that names a
\* framebuffer or a property blob that does not exist, and applies to the
\* connector the HDR_SOURCE_METADATA of a request it accepts
CallerCommit ==
    /\ phase = "ready"
    /\ atomic
    /\ request # EmptyRequest
    /\ pending' = IF request["FB_ID"] \in fbs \cup {0} THEN request["FB_ID"]
                  ELSE pending
    /\ connector_hdr' =
           IF /\ request["FB_ID"] \in fbs \cup {0, Unset}
              /\ request["HDR_SOURCE_METADATA"] \in blobs \cup {0}
           THEN request["HDR_SOURCE_METADATA"]
           ELSE connector_hdr
    /\ request' = EmptyRequest
    /\ UNCHANGED <<phase, ctx, current_frame, last_frame, old_frame,
                   hdr_metadata, hdr_blob_id, panel_metadata, refs, fbs, gems,
                   destroyed, next_fb, metas, blobs, dead_blobs, next_hdr,
                   atomic, scanout, device_cap, drm_params, call, ret, events,
                   peak, stream_creates, display_w, display_h, src, dst, mode,
                   scale_args>>
    /\ UNCHANGED <<egl_vars, wl_vars>>

\* the display controller latches the committed plane state at vsync
Vsync ==
    /\ pending # NoPending
    /\ scanout' = pending
    /\ pending' = NoPending
    /\ UNCHANGED <<phase, ctx, current_frame, last_frame, old_frame,
                   hdr_metadata, hdr_blob_id, panel_metadata, refs, fbs, gems,
                   destroyed, next_fb, metas, blobs, dead_blobs, next_hdr,
                   atomic, request, device_cap, drm_params, call, ret, events,
                   peak, stream_creates, display_w, display_h, src, dst, mode,
                   scale_args, connector_hdr>>
    /\ UNCHANGED <<egl_vars, wl_vars>>

\* ------------------------------------------------------ Spec: the session
\* Every environment, every outcome of init, and streams of one decoded
\* image with every transfer characteristic, panel and blob-creation outcome.
SessionInputs ==
    {in \in OverlayInputs :
        /\ in.hw_image \in {0, 1}
        /\ in.hw_image # 0 => in.has_desc
        /\ in.create \in {"ok", "fail_import"}
        /\ in.space \in {"pq", "other"}
        /\ in.setplane_ok}

CallInit == InitWith(InitInputs)

CallOverlayFrame == OverlayFrameWith(SessionInputs)

CallOverlayNone == OverlayNoneWith(SessionInputs)

CallUninit == UninitWith(InitInputs)

Next ==
    \/ CallInit
    \/ CallOverlayFrame
    \/ CallOverlayNone
    \/ CallUninit
    \/ CallerCommit

Spec == Init /\ [][Next]_vars

\* -------------------------------------------------- SpecRing: the ring
\* A device that passes init and a panel without HDR metadata; every decoded
\* image, with and without a descriptor, and every failure of framebuffer
\* creation and of the legacy plane update.
RingInitInputs ==
    {in \in InitInputs :
        in.ctx_ok /\ in.panel = NoBlob /\ in.commit_ok /\ in.crtc_ok}

RingInputs ==
    {in \in OverlayInputs :
        in.gamma = "other" /\ in.space = "other" /\ in.blob_ok /\ in.commit_ok}

InitRing ==
    /\ Init
    /\ drm_params
    /\ device_cap = [query_ret |-> 0, has_prime |-> DRM_PRIME_CAP_IMPORT]

RingInit == InitWith(RingInitInputs)

RingFrame == OverlayFrameWith(RingInputs)

RingNone == OverlayNoneWith(RingInputs)

RingUninit == UninitWith(RingInitInputs)

NextRing ==
    \/ RingInit
    \/ RingFrame
    \/ RingNone
    \/ RingUninit

SpecRing == InitRing /\ [][NextRing]_vars

\* ------------------------------------------- SpecDisplay: the scanout
\* The program together with the display controller, for one decoded image
\* and calls whose native operations all succeed.
DisplayInputs ==
    {in \in OverlayInputs :
        /\ in.hw_image \in {0, 1}
        /\ in.hw_image # 0 => in.has_desc
        /\ in.create = "ok" /\ in.blob_ok /\ in.setplane_ok /\ in.commit_ok
        /\ in.gamma \in {"pq", "other"} /\ in.space = "other"}

DisplayInit == InitWith(RingInitInputs)

PresentFrame == OverlayFrameWith(DisplayInputs)

PresentNone == OverlayNoneWith(DisplayInputs)

DisplayUninit == UninitWith(RingInitInputs)

NextDisplay ==
    \/ DisplayInit
    \/ PresentFrame
    \/ PresentNone
    \/ DisplayUninit
    \/ CallerCommit
    \/ Vsync

SpecDisplay == InitRing /\ [][NextDisplay]_vars

\* ------------------------------------- SpecPlane: the plane placement
\* Every display mode and, after init, one overlay_frame call with every OSD
\* size and every rectangle: the small ones exhaustively, and the display
\* 1280x800 with the OSD plane 1920x1080.
Dims == 1 .. MaxDim

Modes == (Dims \X Dims) \cup {<<1280, 800>>}

OsdSizes == {<<[width |-> w, height |-> h]>> : w \in Dims, h \in Dims}
            \cup {<<[width |-> 1920, height |-> 1080]>>}

\* the logical rectangles inside an OSD plane of the size w x h
RectsIn(w, h) ==
    IF w <= MaxDim /\ h <= MaxDim
    THEN {r \in {mp_rect(x0, y0, x1, y1) :
                     x0 \in 0 .. w - 1, y0 \in 0 .. h - 1,
                     x1 \in 1 .. w, y1 \in 1 .. h} :
            r.x0 < r.x1 /\ r.y0 < r.y1}
    ELSE {mp_rect(0, 0, w, h)}

\* the rectangles given when no OSD size is registered
UnscaledRects ==
    {mp_rect(x0, y0, x1, y1) :
        x0 \in -1 .. 1, y0 \in -1 .. 1, x1 \in {3, 4}, y1 \in {3, 4}}

PlaneSrc == mp_rect(1, 0, 4, 3)

Placements ==
    {[src |-> PlaneSrc, dst |-> r, osd_size |-> <<>>] : r \in UnscaledRects}
    \cup UNION {{[src |-> PlaneSrc, dst |-> r, osd_size |-> o] :
                    r \in RectsIn(o[1].width, o[1].height)} : o \in OsdSizes}

PlaneInputs ==
    {in \in OverlayInputs :
        /\ in.hw_image = 1 /\ in.has_desc /\ in.create = "ok"
        /\ in.gamma = "other" /\ in.space = "other"
        /\ in.blob_ok /\ in.setplane_ok /\ in.commit_ok}

InitPlane ==
    /\ InitPriv
    /\ mode \in Modes
    /\ drm_params
    /\ device_cap = [query_ret |-> 0, has_prime |-> DRM_PRIME_CAP_IMPORT]

PlaneInit == InitWith(RingInitInputs)

\* the first frame of the session
PlaceFrame ==
    /\ call.name = "init"
    /\ OverlayFrameAt(PlaneInputs, Placements)

NextPlane ==
    \/ PlaneInit
    \/ PlaceFrame

SpecPlane == InitPlane /\ [][NextPlane]_vars

\* -------------------------------------------------- hwdec_drmprime_egl.c
\* The interop state as one record, threaded through the statements of a
\* handler.
EglState ==
    [images |-> images, gl_textures |-> gl_textures, live |-> egl_live,
     textures |-> gl_live, tex_target |-> tex_target,
     next_image |-> next_image, tex_gen |-> tex_gen, last_map |-> last_map,
     events |-> <<>>, ret |-> 0]

\* the state a drmprime-egl handler leaves behind
EglBecomes(e) ==
    /\ images' = e.images
    /\ gl_textures' = e.gl_textures
    /\ egl_live' = e.live
    /\ gl_live' = e.textures
    /\ tex_target' = e.tex_target
    /\ next_image' = e.next_image
    /\ tex_gen' = e.tex_gen
    /\ last_map' = e.last_map
    /\ egl_events' = e.events
    /\ egl_ret' = e.ret

\* p->DestroyImageKHR(eglGetCurrentDisplay(), p->images[i])
DestroyImageKHR(e, i) ==
    Log([e EXCEPT !.live = @ \ {e.images[i]}],
        <<"DestroyImageKHR", i, e.images[i]>>)

\* unmap_frame, lines 72-74: one iteration of the loop
unmap_plane(e, i) ==
    IF e.images[i] # 0
    THEN [DestroyImageKHR(e, i) EXCEPT !.images[i] = 0]
    ELSE [e EXCEPT !.images[i] = 0]

\* unmap_frame, lines 71-75: the loop from plane i on
RECURSIVE unmap_planes(_, _)
unmap_planes(e, i) ==
    IF i < MAX_NUM_PLANES THEN unmap_planes(unmap_plane(e, i), i + 1) ELSE e

\* unmap_frame deleting the textures together with the images
unmap_frame_deletes_textures(e) ==
    [unmap_planes(e, 0) EXCEPT
        !.textures = @ \ {e.gl_textures[n] : n \in Planes},
        !.gl_textures = NoImages]

\* unmap_frame(hw)
unmap_frame(e) == unmap_planes(e, 0)

\* destroy_textures(hw): glDeleteTextures of the four names, then zeroed
destroy_textures(e) ==
    Log([e EXCEPT
           !.textures = @ \ {e.gl_textures[n] : n \in Planes},
           !.gl_textures = NoImages,
           !.tex_target = NoImages],
        <<"DeleteTextures", e.gl_textures>>)

\* destroy(hw)
destroy(e) == destroy_textures(unmap_frame(e))

\* the names glGenTextures returns on its g-th call
GenTextures(g) == [n \in Planes |-> MAX_NUM_PLANES * (g - 1) + n + 1]

\* reinit, lines 147-156: four new textures are generated
gen_textures(e) ==
    Log([e EXCEPT
           !.gl_textures = GenTextures(e.tex_gen + 1),
           !.textures = @ \cup {GenTextures(e.tex_gen + 1)[n] : n \in Planes},
           !.tex_gen = e.tex_gen + 1],
        <<"GenTextures", GenTextures(e.tex_gen + 1)>>)

\* reinit(hw, params)
reinit(e) == gen_textures(destroy_textures(e))

\* create(hw): priv is zero-allocated; ok is whether the EGL context, the
\* extensions and the three entry points are all there
create(e, ok) == [e EXCEPT !.ret = IF ok THEN 0 ELSE -1]

\* map_frame, lines 199-206: layer l gets its image, attached to texture l
create_image(e, l) ==
    Log([e EXCEPT !.images[l] = e.next_image,
                  !.live = @ \cup {e.next_image},
                  !.last_map = @ \cup {e.next_image},
                  !.tex_target[l] = e.next_image,
                  !.next_image = e.next_image + 1],
        <<"CreateImageKHR", l, e.next_image>>)

\* the "err:" label returning without unmap_frame
map_frame_err_keeps(e) == [e EXCEPT !.ret = -1]

\* map_frame, the "err:" label
map_frame_err(e) == [unmap_frame(e) EXCEPT !.ret = -1]

\* map_frame, lines 181-219: the loop over the layers from layer l on;
\* CreateImageKHR returns EGL_NO_IMAGE_KHR for layer in.fail_at
RECURSIVE map_layers(_, _, _)
map_layers(e, l, in) ==
    IF l >= in.nb_layers THEN [e EXCEPT !.ret = 0]
    ELSE IF l = in.fail_at
    THEN map_frame_err(Log([e EXCEPT !.images[l] = EGL_NO_IMAGE_KHR],
                           <<"CreateImageKHR", l, EGL_NO_IMAGE_KHR>>))
    ELSE map_layers(create_image(e, l), l + 1, in)

\* map_frame that does not unmap the previous frame first
map_frame_keeps_previous(e, in) ==
    IF ~in.desc THEN map_frame_err([e EXCEPT !.last_map = {}])
    ELSE map_layers([e EXCEPT !.last_map = {}], 0, in)

\* map_frame(hw, hw_image, out_frame); in.desc is whether
\* hw_image->planes[0] holds a descriptor
map_frame(e, in) ==
    IF ~in.desc THEN map_frame_err([e EXCEPT !.last_map = {}])
    ELSE map_layers(unmap_frame([e EXCEPT !.last_map = {}]), 0, in)

\* the frames given to map_frame: with or without a descriptor, its number
\* of layers, and the layer whose image creation fails (none when fail_at =
\* nb_layers)
MapInputs ==
    {in \in [desc : BOOLEAN, nb_layers : 0 .. MaxLayers,
             fail_at : 0 .. MaxLayers] :
        /\ in.fail_at <= in.nb_layers
        /\ ~in.desc => in.nb_layers = 0}

\* the interop is loaded: create
EglCreate ==
    /\ egl_phase = "new"
    /\ \E ok \in BOOLEAN :
         /\ EglBecomes(create(EglState, ok))
         /\ egl_phase' = IF ok THEN "created" ELSE "failed"
    /\ egl_call' = "create"
    /\ UNCHANGED <<drm_vars, wl_vars>>

\* the consumer signals new image parameters: reinit
EglReinit ==
    /\ egl_phase \in {"created", "ready"}
    /\ tex_gen < MaxReinits
    /\ EglBecomes(reinit(EglState))
    /\ egl_phase' = "ready"
    /\ egl_call' = "reinit"
    /\ UNCHANGED <<drm_vars, wl_vars>>

\* the renderer maps a decoded image: map_frame
EglMapFrame ==
    /\ egl_phase = "ready"
    /\ \E in \in MapInputs :
         /\ next_image + in.nb_layers - 1 <= MaxEglImages
         /\ EglBecomes(map_frame(EglState, in))
    /\ egl_call' = "map_frame"
    /\ UNCHANGED <<egl_phase, drm_vars, wl_vars>>

\* the renderer is done with the mapped image: unmap
EglUnmapFrame ==
    /\ egl_phase = "ready"
    /\ EglBecomes(unmap_frame(EglState))
    /\ egl_call' = "unmap_frame"
    /\ UNCHANGED <<egl_phase, drm_vars, wl_vars>>

\* the interop is unloaded: destroy
EglDestroy ==
    /\ egl_phase \in {"created", "failed", "ready"}
    /\ EglBecomes(destroy(EglState))
    /\ egl_phase' = "destroyed"
    /\ egl_call' = "destroy"
    /\ UNCHANGED <<drm_vars, wl_vars>>

\* ----------------------------------------- SpecEgl: the texture interop
InitEgl ==
    /\ InitRing
    /\ atomic

NextEgl ==
    \/ EglCreate
    \/ EglReinit
    \/ EglMapFrame
    \/ EglUnmapFrame
    \/ EglDestroy

SpecEgl == InitEgl /\ [][NextEgl]_vars

TypeOK ==
    /\ phase \in {"new", "ready", "failed", "closed", "crashed"}
    /\ fbs \subseteq 1 .. MaxFb
    /\ gems \subseteq 1 .. MaxFb
    /\ next_fb \in 1 .. MaxFb + 1
    /\ next_hdr \in 1 .. MaxHdr + 1

\* ------------------------------------------------------------ observations
Ring == <<current_frame, last_frame, old_frame>>

EventIdx(kind) == {i \in DOMAIN events : events[i][1] = kind}

\* the values the most recent operation wrote for a property of the request
Written(name) ==
    {events[i][4] : i \in {j \in EventIdx("set_property") : events[j][3] = name}}

\* the index of the last event of a kind that concerns a slot, 0 if none
LastIdx(kind, slot) ==
    LET I == {i \in EventIdx(kind) : events[i][2] = slot}
    IN  IF I = {} THEN 0 ELSE CHOOSE i \in I : \A j \in I : j <= i

LastInstall ==
    LET I == EventIdx("install")
    IN  IF I = {} THEN 0 ELSE CHOOSE i \in I : \A j \in I : j <= i

SlotsHolding(i) ==
    Cardinality({k \in 1 .. RingDepth : Ring[k].image = i})

\* ------------------------------------------------------------------ claims

\* C1 (as stated): a framebuffer that is being scanned out, or that is
\* committed and waits to be latched at the next vsync, has not been
\* destroyed.
C1_ScanoutSafety ==
    /\ scanout \notin destroyed
    /\ pending \notin destroyed

\* C2 (as stated): when overlay_frame(none) returns, the three ring slots
\* hold no framebuffer id and no image, every framebuffer created has been
\* destroyed, and a disable-plane commit has been issued.
C2_DrainOnEndOfStream ==
    (call.name = "overlay_none" /\ ret = 0) =>
        /\ Ring = <<drm_frame, drm_frame, drm_frame>>
        /\ fbs = {}
        /\ EventIdx("commit_disable") # {}

\* C3 (as stated): at every point in time, the points inside a call between
\* creating the new framebuffer and advancing the ring included, at most
\* ring-depth framebuffers and imported handles are alive.
C3_AtMostRingDepthAtEveryPoint ==
    peak <= RingDepth

\* C3 (amended): between calls at most ring-depth framebuffers and imported
\* handles are alive, all of them held by ring slots; inside a call, between
\* creating the new framebuffer and advancing the ring, at most one more.
C3_BoundedNativeResources ==
    /\ Cardinality(fbs) <= RingDepth
    /\ Cardinality(gems) <= RingDepth
    /\ fbs = {Ring[k].fb.fb_id : k \in 1 .. RingDepth} \ {0}
    /\ gems = {Ring[k].fb.gem_handle : k \in 1 .. RingDepth} \ {0}
    /\ peak <= RingDepth + 1

C3_Witness ==
    /\ call.name = "overlay_frame"
    /\ ret = 0
    /\ peak = RingDepth + 1
    /\ Cardinality(fbs) = RingDepth

\* C4: a call of overlay_frame(frame) in which framebuffer creation fails
\* returns a failure value and leaves the three ring slots and the atomic
\* request as they were, and issues no legacy plane update.
C4_FailedImportInvisible ==
    [][(call'.name = "overlay_frame" /\ call'.create # "ok") =>
          /\ ret' = -1
          /\ UNCHANGED <<current_frame, last_frame, old_frame>>
          /\ UNCHANGED <<request, pending>>
          /\ EventIdx("set_property")' = {}
          /\ EventIdx("drmModeSetPlane")' = {}]_vars

C4_Witness ==
    /\ call.name = "overlay_frame"
    /\ call.create # "ok"
    /\ ret = -1
    /\ current_frame.fb.fb_id # 0
    /\ last_frame.fb.fb_id # 0

\* C5: after every operation, the manager holds on every decoded image as
\* many references as there are ring slots whose image is that image, and
\* never a negative number.
C5_RefCountAccounting ==
    \A i \in Images : refs[i] >= 0 /\ refs[i] = SlotsHolding(i)

C5_Witness ==
    /\ \E i \in Images : refs[i] >= 2
    /\ \E i \in EventIdx("unref") : events[i][2] = "old_frame"
    /\ old_frame.image # 0

\* C6 (as stated): within one stream the HDR metadata object is created at
\* most once, and none is still allocated (nor its blob) once the stream or
\* the session has ended, by overlay_frame(none) or by uninit.
C6_HdrMetadataLifecycle ==
    /\ stream_creates <= 1
    /\ call.name \in {"overlay_none", "uninit"} => metas = {} /\ blobs = {}

\* C7: a call of overlay_frame(frame) with a panel whose eotf is 0 never
\* writes HDR_SOURCE_METADATA and writes EOTF only as traditional gamma (SDR
\* for a stream eotf of 0, HDR otherwise), and the request never carries the
\* blob id; with a panel whose eotf is not 0, what it writes is the blob id
\* and the stream's eotf.
C7_NoHdrToSdrPanel ==
    LET wrote == call.name = "overlay_frame" /\ ret = 0 /\ atomic
                    /\ call.has_desc
        eotf == hdr_metadata[1].eotf
    IN  /\ (call.name = "overlay_frame" /\ ~wrote) =>
               Written("EOTF") = {} /\ Written("HDR_SOURCE_METADATA") = {}
        /\ (wrote /\ panel_metadata = 0) =>
               /\ Written("HDR_SOURCE_METADATA") = {}
               /\ Written("EOTF") = {IF eotf = 0 THEN MP_TRADITIONAL_GAMMA_SDR
                                     ELSE MP_TRADITIONAL_GAMMA_HDR}
        /\ panel_metadata = 0 =>
               request["HDR_SOURCE_METADATA"] \in {Unset, 0}
        /\ (wrote /\ panel_metadata # 0) =>
               /\ Written("HDR_SOURCE_METADATA") = {hdr_blob_id}
               /\ Written("EOTF") = {eotf}

C7_Witness ==
    /\ call.name = "overlay_frame"
    /\ ret = 0
    /\ panel_metadata = 0
    /\ hdr_blob_id # 0
    /\ hdr_metadata # <<>>
    /\ hdr_metadata[1].eotf = MP_SMPTE_ST2084
    /\ Written("EOTF") = {MP_TRADITIONAL_GAMMA_HDR}

\* C8 (as stated): every overlay_frame(none) call writes HDR_SOURCE_METADATA
\* = 0 and HDMI_OUTPUT_FORMAT = default RGB on the connector and EOTF = SDR
\* and COLOR_SPACE = default on the plane, and leaves no metadata object and
\* a blob id of 0.
C8_EveryStreamEndWrites ==
    call.name = "overlay_none" =>
        /\ Written("HDR_SOURCE_METADATA") = {0}
        /\ Written("HDMI_OUTPUT_FORMAT") = {MP_DRM_HDMI_OUTPUT_DEFAULT_RGB}
        /\ Written("EOTF") = {MP_TRADITIONAL_GAMMA_SDR}
        /\ Written("COLOR_SPACE") = {V4L2_COLORSPACE_DEFAULT}
        /\ hdr_metadata = <<>>
        /\ hdr_blob_id = 0

\* C8 (amended): every overlay_frame(none) call leaves no metadata object, a
\* blob id of 0 and no live blob; when the session has an atomic request it
\* writes the four reset values into it, and without one it writes nothing.
C8_StreamEndReset ==
    call.name = "overlay_none" =>
        /\ atomic =>
            /\ Written("HDR_SOURCE_METADATA") = {0}
            /\ Written("HDMI_OUTPUT_FORMAT") = {MP_DRM_HDMI_OUTPUT_DEFAULT_RGB}
            /\ Written("EOTF") = {MP_TRADITIONAL_GAMMA_SDR}
            /\ Written("COLOR_SPACE") = {V4L2_COLORSPACE_DEFAULT}
        /\ ~atomic => EventIdx("set_property") = {}
        /\ hdr_metadata = <<>>
        /\ hdr_blob_id = 0
        /\ blobs = {}
        /\ metas = {}

C8_Witness ==
    /\ call.name = "overlay_none"
    /\ atomic
    /\ dead_blobs # {}
    /\ Written("HDR_SOURCE_METADATA") = {0}

\* C9: in every successful overlay_frame call the framebuffer of old_frame
\* is destroyed and its image reference dropped before the shift old <- last
\* <- current, and the shift is done before the new frame is installed in
\* current_frame, which is the last thing the call does.
C9_EvictBeforeInstall ==
    (call.name \in {"overlay_frame", "overlay_none"} /\ ret = 0) =>
        LET d == LastIdx("destroy_framebuffer", "old_frame")
            so == LastIdx("shift", "old_frame")
            sl == LastIdx("shift", "last_frame")
            ins == LastInstall
        IN  /\ 0 < d /\ d < so /\ so < sl /\ sl < ins
            /\ ins = Len(events)
            /\ \A i \in EventIdx("unref") :
                   (events[i][2] = "old_frame" /\ i > d) => i < so
            /\ events[d][3] # 0 => events[d][3] \in destroyed
            /\ events[d][3] \notin {Ring[k].fb.fb_id : k \in 1 .. RingDepth} \ {0}
            /\ old_frame.fb.fb_id = events[so][3]
            /\ last_frame.fb.fb_id = events[sl][3]
            /\ current_frame.fb.fb_id = events[ins][2]
            /\ current_frame.image = events[ins][3]

C9_Witness ==
    /\ call.name = "overlay_frame"
    /\ ret = 0
    /\ LastIdx("destroy_framebuffer", "old_frame") > 0
    /\ events[LastIdx("destroy_framebuffer", "old_frame")][3] # 0
    /\ \E i \in EventIdx("unref") : events[i][2] = "old_frame"
    /\ current_frame.fb.fb_id # 0

\* C10 (as stated): init fails, and leaves no DRM context, whenever the
\* device lacks prime import, whether the capability query fails or answers
\* 0; init succeeds only when prime import is supported.
C10_CapabilityProbeFatal ==
    LET lacks == device_cap.query_ret < 0 \/ device_cap.has_prime = 0
    IN  (call.name = "init" /\ phase # "crashed") =>
            /\ lacks => ret = -1 /\ ~ctx
            /\ ret = 0 => ~lacks

\* C11 (as stated): uninit never dereferences an absent handle, neither when
\* the player calls it nor when init's error path calls it without a DRM
\* context; every release step is a no-op on an empty target.
C11_TeardownNeverFaults ==
    /\ EventIdx("null_deref") = {}
    /\ phase # "crashed"

\* the events of a kind in the log of the most recent drmprime-egl operation
EglEventIdx(kind) == {i \in DOMAIN egl_events : egl_events[i][1] = kind}

\* C12: the live EGL images are exactly those created by the most recent
\* map_frame call when it succeeded and no unmap_frame or destroy followed,
\* and none otherwise (create and reinit leave them as they are); they are the
\* ones the images[] slots hold; and inside a map_frame call every image of
\* an earlier call is destroyed before the first image is created.
C12_OneGenerationOfImages ==
    [][/\ (egl_call' = "map_frame" /\ egl_ret' = 0) => egl_live' = last_map'
       /\ (egl_call' = "map_frame" /\ egl_ret' # 0) => egl_live' = {}
       /\ egl_call' \in {"unmap_frame", "destroy"} => egl_live' = {}
       /\ egl_call' \in {"create", "reinit"} => egl_live' = egl_live
       /\ egl_live' = {images'[i] : i \in Planes} \ {EGL_NO_IMAGE_KHR}
       /\ egl_call' = "map_frame" =>
            \A i \in EglEventIdx("DestroyImageKHR")',
               j \in EglEventIdx("CreateImageKHR")' :
                 egl_events'[i][3] \in egl_live => i < j]_vars

C12_Witness ==
    /\ egl_call = "map_frame"
    /\ egl_ret = 0
    /\ Cardinality(egl_live) = MaxLayers
    /\ EglEventIdx("DestroyImageKHR") # {}
    /\ egl_live = last_map

\* C13: a map_frame call that fails, because the image of some layer could
\* not be created or because the frame has no descriptor, returns -1 with
\* no EGL image live and every images[] slot empty; every image the call
\* created has been destroyed by the call.
C13_MapFailureLeavesNothing ==
    (egl_call = "map_frame" /\ egl_ret # 0) =>
        /\ egl_ret = -1
        /\ egl_live = {}
        /\ images = NoImages
        /\ \A id \in last_map :
             \E i \in EglEventIdx("DestroyImageKHR"),
                j \in EglEventIdx("CreateImageKHR") :
                  egl_events[i][3] = id /\ egl_events[j][3] = id /\ j < i

C13_Witness ==
    /\ egl_call = "map_frame"
    /\ egl_ret = -1
    /\ last_map # {}
    /\ egl_live = {}
    /\ \E j \in EglEventIdx("CreateImageKHR") :
         egl_events[j][3] = EGL_NO_IMAGE_KHR /\ egl_events[j][2] > 0

\* C14: a call of overlay_frame in a session without atomic request whose
\* drmModeSetPlane fails returns a failure value, destroys the framebuffer
\* it created for the frame before returning, and leaves the three ring
\* slots, the references on the images and the plane state as they were.
C14_LegacyCommitFailureCleanedUp ==
    [][(\E i \in EventIdx("drmModeSetPlane")' : ~events'[i][3]) =>
          /\ ~atomic
          /\ ret' < 0
          /\ UNCHANGED <<current_frame, last_frame, old_frame>>
          /\ UNCHANGED <<fbs, gems, refs, pending>>
          /\ \E c \in EventIdx("create_framebuffer")',
                d \in EventIdx("destroy_framebuffer")' :
                  /\ c < d
                  /\ events'[c][2] # 0
                  /\ events'[d][2] = "next_frame"
                  /\ events'[d][3] = events'[c][2]
                  /\ events'[c][2] \in destroyed'
          /\ EventIdx("install")' = {}]_vars

C14_Witness ==
    /\ call.name = "overlay_frame"
    /\ ret < 0
    /\ \E i \in EventIdx("drmModeSetPlane") : ~events[i][3]
    /\ current_frame.fb.fb_id # 0
    /\ last_frame.fb.fb_id # 0
    /\ next_fb - 1 \in destroyed

\* the rectangle the most recent overlay_frame submitted for the plane:
\* <<x, y, w, h>> of the CRTC_* properties of the request, or of the
\* arguments of drmModeSetPlane
SubmittedRect ==
    IF atomic
    THEN <<request["CRTC_X"], request["CRTC_Y"], request["CRTC_W"],
           request["CRTC_H"]>>
    ELSE LET i == CHOOSE j \in EventIdx("drmModeSetPlane") : TRUE
         IN  <<events[i][4], events[i][5], events[i][6], events[i][7]>>

\* t is the double p / q (p >= 0, q > 0) converted to int
IsTruncation(t, p, q) == t * q <= p /\ p < (t + 1) * q

\* C15: on the display 1280x800, the logical rectangle (0,0)-(1920,1080) of
\* a 1920x1080 plane is placed at (0,40)-(1280,760).
C15_GeometryWorkedExample ==
    (/\ call.name = "overlay_frame"
     /\ display_w = 1280 /\ display_h = 800
     /\ scale_args = <<[source_w |-> 1920, source_h |-> 1080,
                        src |-> mp_rect(0, 0, 1920, 1080)]>>)
        => dst = mp_rect(0, 40, 1280, 760)

C15_Witness ==
    /\ call.name = "overlay_frame"
    /\ display_w = 1280 /\ display_h = 800
    /\ scale_args = <<[source_w |-> 1920, source_h |-> 1080,
                       src |-> mp_rect(0, 0, 1920, 1080)]>>
    /\ dst = mp_rect(0, 40, 1280, 760)

\* C16: every successful overlay_frame(frame) submits, in the CRTC_X /
\* CRTC_Y / CRTC_W / CRTC_H properties of the atomic request or in the
\* arguments of drmModeSetPlane alike, the origin of the computed rectangle
\* p->dst rounded down to an even value and its extents rounded up to an
\* even value.
C16_AlignedPlaneRectangle ==
    (call.name = "overlay_frame" /\ ret = 0 /\ call.has_desc) =>
        /\ atomic => /\ Written("CRTC_X") = {SubmittedRect[1]}
                     /\ Written("CRTC_Y") = {SubmittedRect[2]}
                     /\ Written("CRTC_W") = {SubmittedRect[3]}
                     /\ Written("CRTC_H") = {SubmittedRect[4]}
        /\ ~atomic => Cardinality(EventIdx("drmModeSetPlane")) = 1
        /\ \A k \in 1 .. 4 : SubmittedRect[k] % 2 = 0
        /\ SubmittedRect[1] <= dst.x0 /\ dst.x0 < SubmittedRect[1] + 2
        /\ SubmittedRect[2] <= dst.y0 /\ dst.y0 < SubmittedRect[2] + 2
        /\ dst.x1 - dst.x0 <= SubmittedRect[3]
        /\ SubmittedRect[3] < dst.x1 - dst.x0 + 2
        /\ dst.y1 - dst.y0 <= SubmittedRect[4]
        /\ SubmittedRect[4] < dst.y1 - dst.y0 + 2

C16_Witness ==
    /\ call.name = "overlay_frame" /\ ret = 0 /\ call.has_desc
    /\ ~atomic
    /\ dst.x0 % 2 = 1 /\ dst.y0 % 2 = 0
    /\ (dst.x1 - dst.x0) % 2 = 1
    /\ SubmittedRect = <<dst.x0 - 1, dst.y0, dst.x1 - dst.x0 + 1,
                         MP_ALIGN_UP(dst.y1 - dst.y0)>>

\* C20: for positive display and plane sizes and a logical rectangle inside
\* the plane, the placement scales both axes by the single factor r = n / d,
\* the smaller of display_w / source_w and display_h / source_h, moves the
\* rectangle by the truncated centering offsets (display_w - r * source_w) / 2
\* and (display_h - r * source_h) / 2, stays inside the display, and has a
\* width and a height within one unit of r times those of the logical
\* rectangle.
C20_UniformFitScaling ==
    (call.name = "overlay_frame" /\ scale_args # <<>>
       /\ display_w > 0 /\ display_h > 0) =>
        LET sw == scale_args[1].source_w
            sh == scale_args[1].source_h
            r == scale_args[1].src
        IN  \E ratio \in {<<display_w, sw>>, <<display_h, sh>>} :
              LET n == ratio[1]
                  d == ratio[2]
              IN  /\ n * sw <= display_w * d
                  /\ n * sh <= display_h * d
                  /\ \E ox \in 0 .. display_w, oy \in 0 .. display_h :
                       /\ IsTruncation(ox, display_w * d - n * sw, 2 * d)
                       /\ IsTruncation(oy, display_h * d - n * sh, 2 * d)
                       /\ IsTruncation(dst.x0 - ox, r.x0 * n, d)
                       /\ IsTruncation(dst.x1 - ox, r.x1 * n, d)
                       /\ IsTruncation(dst.y0 - oy, r.y0 * n, d)
                       /\ IsTruncation(dst.y1 - oy, r.y1 * n, d)
                  /\ 0 <= dst.x0 /\ dst.x0 <= dst.x1 /\ dst.x1 <= display_w
                  /\ 0 <= dst.y0 /\ dst.y0 <= dst.y1 /\ dst.y1 <= display_h
                  /\ (dst.x1 - dst.x0 - 1) * d < (r.x1 - r.x0) * n
                  /\ (r.x1 - r.x0) * n < (dst.x1 - dst.x0 + 1) * d
                  /\ (dst.y1 - dst.y0 - 1) * d < (r.y1 - r.y0) * n
                  /\ (r.y1 - r.y0) * n < (dst.y1 - dst.y0 + 1) * d

C20_Witness ==
    /\ call.name = "overlay_frame"
    /\ scale_args # <<>>
    /\ display_w = 3 /\ display_h = 4
    /\ scale_args[1].source_w = 4 /\ scale_args[1].source_h = 2
    /\ scale_args[1].src = mp_rect(1, 0, 4, 1)
    /\ dst = mp_rect(0, 1, 3, 1)

\* C17 (as stated): when uninit returns, every framebuffer the manager
\* created has been destroyed and no ring slot holds a framebuffer id or an
\* image reference.
C17_TeardownReleasesEverything ==
    call.name = "uninit" =>
        /\ fbs = {}
        /\ Ring = <<drm_frame, drm_frame, drm_frame>>
        /\ \A i \in Images : refs[i] = 0

\* the framebuffers the three ring slots hold
RingFbs == {Ring[k].fb.fb_id : k \in 1 .. RingDepth} \ {0}

\* C18: a framebuffer that a ring slot holds is destroyed only through the
\* old_frame slot, where it is before the operation or where a shift of the
\* operation has put it before the destruction, it having entered the ring
\* through current_frame and passed through last_frame; no framebuffer is
\* destroyed through current_frame or last_frame.
C18_DestroyOnlyFromRingTail ==
    [][\A i \in EventIdx("destroy_framebuffer")' :
          /\ events'[i][2] \in {"old_frame", "next_frame"}
          /\ (events'[i][3] # 0 /\ events'[i][2] = "next_frame") =>
                 /\ events'[i][3] \notin RingFbs
                 /\ events'[i][3] \notin RingFbs'
          /\ (events'[i][3] # 0 /\ events'[i][2] = "old_frame") =>
                 /\ events'[i][3] \in RingFbs
                 /\ \/ old_frame.fb.fb_id = events'[i][3]
                    \/ \E j \in EventIdx("shift")' :
                         /\ j < i
                         /\ events'[j][2] = "old_frame"
                         /\ events'[j][3] = events'[i][3]
                 /\ \/ events'[i][3] \in {old_frame.fb.fb_id,
                                          last_frame.fb.fb_id}
                    \/ \E j \in EventIdx("shift")' :
                         /\ j < i
                         /\ events'[j][2] = "last_frame"
                         /\ events'[j][3] = events'[i][3]]_vars

C18_Witness ==
    /\ call.name = "overlay_none"
    /\ Cardinality(EventIdx("destroy_framebuffer")) >= 3
    /\ Cardinality(destroyed) >= 3
    /\ \E i \in EventIdx("destroy_framebuffer"), j \in EventIdx("shift") :
         /\ j < i
         /\ events[j][2] = "old_frame"
         /\ events[i][3] # 0
         /\ events[j][3] = events[i][3]

\* C19: no framebuffer is destroyed twice, no two ring slots hold the same
\* non-zero framebuffer id, and no ring slot holds the id of a framebuffer
\* that has been destroyed, the one destroyed on the failure path of
\* overlay_frame included.
C19_NoDoubleReleaseNoDanglingSlot ==
    [][/\ \A i \in EventIdx("destroy_framebuffer")' :
            events'[i][3] # 0 =>
              /\ events'[i][3] \notin destroyed
              /\ \A j \in EventIdx("destroy_framebuffer")' :
                    events'[j][3] = events'[i][3] => j = i
       /\ \A k, l \in 1 .. RingDepth :
            (k # l /\ Ring[k].fb.fb_id' # 0) =>
                Ring[k].fb.fb_id' # Ring[l].fb.fb_id'
       /\ RingFbs' \cap destroyed' = {}
       /\ RingFbs' \subseteq fbs']_vars

C19_Witness ==
    /\ call.name = "overlay_frame"
    /\ ret = 0
    /\ Cardinality(destroyed) = RingDepth
    /\ RingFbs = {next_fb - 1}
    /\ current_frame.fb.fb_id = next_fb - 1

\* ------------------------------ SpecMode: the display changes its mode
\* The session of SpecPlane continued over several frames, with a display
\* whose physical mode is changed from outside (a mode switch of the DRM
\* master) between the calls; each frame covers the whole OSD plane.
SessionModes == {<<4, 4>>, <<2, 2>>, <<4, 2>>}

SessionOsdSizes ==
    {<<[width |-> 4, height |-> 4]>>, <<[width |-> 4, height |-> 2]>>}

ModePlacements ==
    {[src |-> PlaneSrc, dst |-> mp_rect(0, 0, o[1].width, o[1].height),
      osd_size |-> o] : o \in SessionOsdSizes}
    \cup {[src |-> PlaneSrc, dst |-> mp_rect(0, 0, 4, 4), osd_size |-> <<>>]}

InitMode ==
    /\ InitPriv
    /\ mode \in SessionModes
    /\ drm_params
    /\ device_cap = [query_ret |-> 0, has_prime |-> DRM_PRIME_CAP_IMPORT]

\* the CRTC is given another mode
ModeChange ==
    /\ phase \in {"new", "ready"}
    /\ mode' \in SessionModes \ {mode}
    /\ UNCHANGED <<phase, ctx, current_frame, last_frame, old_frame,
                   hdr_metadata, hdr_blob_id, panel_metadata, refs, fbs, gems,
                   destroyed, next_fb, metas, blobs, dead_blobs, next_hdr,
                   atomic, request, pending, scanout, device_cap, drm_params,
                   call, ret, events, peak, stream_creates, display_w,
                   display_h, src, dst, scale_args, connector_hdr>>
    /\ UNCHANGED <<egl_vars, wl_vars>>

ModeInit == InitWith(RingInitInputs)

ModeFrame == OverlayFrameAt(PlaneInputs, ModePlacements)

NextMode ==
    \/ ModeInit
    \/ ModeFrame
    \/ ModeChange

SpecMode == InitMode /\ [][NextMode]_vars

\* the placement scale_dst_rect gives on a display of the size w x h
PlacementOn(w, h, args) ==
    scale_dst_rect([display_w |-> w, display_h |-> h], args.source_w,
                   args.source_h, args.src)

\* C21 (as stated): the destination rectangle of every overlay_frame(frame)
\* call that scales it is the one scale_dst_rect gives for the physical
\* display size in effect at the time of the call, also after the mode of
\* the display has changed.
C21_DestinationFollowsMode ==
    [][(call'.name = "overlay_frame" /\ mode' = mode /\ scale_args' # <<>>) =>
          dst' = PlacementOn(mode[1], mode[2], scale_args'[1])]_vars

\* the texture names held in p->gl_textures
TextureNames(t) == {t[n] : n \in Planes} \ {0}

\* C22: map_frame and unmap_frame never create, delete or change the GL
\* texture objects; the texture ids change only in reinit, which deletes
\* the old textures and then generates new ones, and in destroy, which
\* deletes them and zeroes the ids.
C22_TexturesStableAcrossFrames ==
    [][/\ egl_call' \in {"map_frame", "unmap_frame"} =>
              /\ UNCHANGED <<gl_textures, gl_live, tex_gen>>
              /\ \A i \in DOMAIN egl_events' :
                     egl_events'[i][1] \notin {"GenTextures", "DeleteTextures"}
       /\ (gl_textures' # gl_textures \/ gl_live' # gl_live) =>
              egl_call' \in {"reinit", "destroy"}
       /\ egl_call' = "reinit" =>
              /\ EglEventIdx("DeleteTextures")' = {1}
              /\ EglEventIdx("GenTextures")' = {2}
              /\ egl_events'[1][2] = gl_textures
              /\ egl_events'[2][2] = gl_textures'
              /\ gl_live' = TextureNames(gl_textures')
              /\ Cardinality(gl_live') = MAX_NUM_PLANES
              /\ TextureNames(gl_textures) \cap gl_live' = {}
       /\ egl_call' = "destroy" =>
              /\ EglEventIdx("DeleteTextures")' # {}
              /\ EglEventIdx("GenTextures")' = {}
              /\ gl_textures' = NoImages
              /\ gl_live' = {}]_vars

\* a second frame mapped on the textures of the second reinit
C22_Witness ==
    /\ egl_call = "map_frame"
    /\ egl_ret = 0
    /\ last_map # {}
    /\ 1 \notin last_map
    /\ tex_gen = 2
    /\ gl_textures = GenTextures(2)
    /\ gl_live = TextureNames(gl_textures)

\* C23 (as stated): with atomic requests, the HDR_SOURCE_METADATA value
\* applied to the connector, and the one written into the request that
\* waits to be committed, is 0 or the id of a property blob that has not
\* been destroyed; at the end of the stream the reset to 0 takes effect
\* before the blob is destroyed.
C23_NoDestroyedHdrBlobReferenced ==
    atomic =>
        /\ connector_hdr \notin dead_blobs
        /\ request["HDR_SOURCE_METADATA"] \notin dead_blobs

\* ---------------------------------------------- hwdec_drmprime_wayland.c
\* The overlay state as one record, threaded through the statements of a
\* handler.
WlState == [log |-> wl_log, events |-> <<>>, ret |-> 0]

\* the state a drmprime-wayland handler leaves behind
WlBecomes(w) ==
    /\ wl_log' = w.log
    /\ wl_events' = w.events
    /\ wl_ret' = w.ret

\* MP_VERBOSE(p, ...): a line of the log
MP_VERBOSE(w, text) == Log(w, <<"MP_VERBOSE", text>>)

\* overlay_frame(hw, hw_image, src, dst, newframe) of drmprime-wayland: the
\* arguments are not read; the "fail:" label is not reached
wayland_overlay_frame(w, in) ==
    [MP_VERBOSE(w, "overlay_frame") EXCEPT !.ret = 0]

\* uninit(hw) of drmprime-wayland
wayland_uninit(w) == MP_VERBOSE(w, "iunnit")

\* init(hw) of drmprime-wayland; the "err:" label is not reached
wayland_init(w) ==
    [MP_VERBOSE([w EXCEPT !.log = TRUE], "init") EXCEPT !.ret = 0]

\* the arguments of overlay_frame: a decoded image or none, the rectangles
\* and the newframe flag
WaylandInputs ==
    [hw_image : 0 .. NumImages, src : {PlaneSrc}, dst : UnscaledRects,
     newframe : BOOLEAN]

WaylandInit ==
    /\ wl_phase = "new"
    /\ WlBecomes(wayland_init(WlState))
    /\ wl_phase' = "ready"
    /\ wl_call' = [name |-> "init"]
    /\ UNCHANGED <<drm_vars, egl_vars>>

WaylandOverlayFrame ==
    /\ wl_phase = "ready"
    /\ \E in \in WaylandInputs :
         /\ WlBecomes(wayland_overlay_frame(WlState, in))
         /\ wl_call' = [name |-> "overlay_frame", in |-> in]
    /\ UNCHANGED <<wl_phase, drm_vars, egl_vars>>

WaylandUninit ==
    /\ wl_phase = "ready"
    /\ WlBecomes(wayland_uninit(WlState))
    /\ wl_phase' = "closed"
    /\ wl_call' = [name |-> "uninit"]
    /\ UNCHANGED <<drm_vars, egl_vars>>

\* ------------------------------------- SpecWayland: the wayland overlay
NextWayland ==
    \/ WaylandInit
    \/ WaylandOverlayFrame
    \/ WaylandUninit

SpecWayland == InitRing /\ [][NextWayland]_vars

\* C24 (as stated): overlay_frame of the drmprime-wayland driver returns,
\* for every input frame, a failure result rather than success.
C24_WaylandOverlayUnsupported ==
    wl_call.name = "overlay_frame" => wl_ret < 0

====
